---------------------------- MODULE Spec2Model ----------------------------
(***************************************************************************)
(* Model of the supply-chain chaincode in src/smartcontract.go.            *)
(*                                                                         *)
(* The world state is a map from keys to byte strings; a key that is not   *)
(* stored reads as nil, modelled by the empty sequence.  A stored value is *)
(* the JSON encoding of a Product: the sequence of its (key, value)        *)
(* members in the order of the struct's fields.  Every string the model    *)
(* handles is valid UTF-8 text, on which encoding/json is lossless.        *)
(*                                                                         *)
(* One transaction is one invocation of a contract function.  The stub of  *)
(* the transaction context is an input of the invocation: the timestamp    *)
(* of the transaction and which of the stub's calls fail.  The stub        *)
(* collects the PutState calls of an invocation in a write set, and the    *)
(* write set is applied to the world state when the function returns nil.  *)
(***************************************************************************)
EXTENDS Integers, Sequences, FiniteSets, TLC

\* Bound of the model: the invocations in one behaviour.
MaxTx == 2

\* Inputs.
IDs == {"", "p1", "p2", "p3"}
\* Keys in the order of a range scan (ascending byte order).
KeyOrder == <<"", "p1", "p2", "p3">>
\* Timestamps of transactions: seconds and nanoseconds since the epoch.
\* The client sets the timestamp, so successive transactions may carry
\* them in any order.
Seconds == {1, 2}
Nanos == {0, 999999999}
\* Offsets from UTC (seconds) that time.Local may have in the process.
Zones == {0, 3600}
NewOwners == {"", "CompanyC"}
CreateArgs == { <<"Tablet", "CompanyC", "10-inch tablet", "Mobile">>,
                <<"", "", "", "">> }
UpdateArgs == { <<"", "", "", "">>,
                <<"Shipped", "CompanyC", "", "">>,
                <<"", "", "Refurbished", "Outlet">> }
\* A stub: the transaction's timestamp and the calls that fail in it.
\* tsOk: GetTxTimestamp succeeds; getOk: GetState succeeds;
\* putFail = n > 0: the n-th PutState call of the invocation fails;
\* rangeOk: GetStateByRange succeeds; nextFail = n > 0: the n-th Next call
\* of the iterator fails; badValue = n > 0: the value of the n-th entry
\* the iterator returns is not the JSON of a Product.
Stubs == [ tsOk : BOOLEAN, Seconds : Seconds, Nanos : Nanos,
           getOk : BOOLEAN, putFail : 0..1 ]
SeedStubs == [ tsOk : BOOLEAN, Seconds : Seconds, Nanos : Nanos,
               getOk : {TRUE}, putFail : 0..2 ]
ReadStubs == [ getOk : BOOLEAN ]
ScanStubs == [ rangeOk : BOOLEAN, nextFail : 0..Len(KeyOrder),
               badValue : 0..Len(KeyOrder) ]

\* The errors, by the names of the specification; "" is Go's nil error.
NoError == ""
ClockError == "ClockError"                  \* "failed to get transaction timestamp"
StoreReadError == "StoreReadError"          \* "failed to read from world state"
StoreWriteError == "StoreWriteError"        \* error returned by PutState
NotFoundError == "NotFoundError"            \* "product with ID %s does not exist"
AlreadyExistsError == "AlreadyExistsError"  \* "product with ID %s already exists"

\* The error of json.Unmarshal.
DecodeError == "DecodeError"

\* nil byte slice: what GetState returns for a key that is not stored.
Nil == <<>>

VARIABLES
    store,   \* the world state: key -> bytes (Nil when absent)
    Local,   \* the offset of time.Local in the chaincode process
    last,    \* the last invocation: function, arguments, seconds, error, result
    made,    \* the ids a successful CreateProduct or InitLedger has written
    iterators, \* number of range iterators opened and not closed
    ntx      \* number of invocations so far

vars == <<store, Local, last, made, iterators, ntx>>

---------------------------------------------------------------------------
\* type Product struct, and encoding/json on it.

Product(id, name, status, owner, createdAt, updatedAt, description, category) ==
    [ ID |-> id, Name |-> name, Status |-> status, Owner |-> owner,
      CreatedAt |-> createdAt, UpdatedAt |-> updatedAt,
      Description |-> description, Category |-> category ]

\* Marshal with the description left out of the encoding (a `json:"-"` tag).
Marshal_NoDescription(p) ==
    << <<"id", p.ID>>, <<"name", p.Name>>, <<"status", p.Status>>,
       <<"owner", p.Owner>>, <<"created_at", p.CreatedAt>>,
       <<"updated_at", p.UpdatedAt>>, <<"category", p.Category>> >>

\* json.Marshal: the members in the order of the struct's fields, under
\* the keys of the json tags.
Marshal(p) ==
    << <<"id", p.ID>>, <<"name", p.Name>>, <<"status", p.Status>>,
       <<"owner", p.Owner>>, <<"created_at", p.CreatedAt>>,
       <<"updated_at", p.UpdatedAt>>, <<"description", p.Description>>,
       <<"category", p.Category>> >>

\* The value of member key of a JSON object; a missing member leaves the
\* field at its zero value.
Member(bytes, key) ==
    IF \E i \in 1..Len(bytes) : bytes[i][1] = key
    THEN bytes[CHOOSE i \in 1..Len(bytes) : bytes[i][1] = key][2]
    ELSE ""

\* json.Unmarshal into a Product.
Unmarshal(bytes) ==
    Product(Member(bytes, "id"), Member(bytes, "name"), Member(bytes, "status"),
            Member(bytes, "owner"), Member(bytes, "created_at"),
            Member(bytes, "updated_at"), Member(bytes, "description"),
            Member(bytes, "category"))

---------------------------------------------------------------------------
\* The stub's calls.

\* time.Unix(sec, nsec): nsec outside [0, 1e9) carries into the seconds.
Unix(sec, nsec) == [ sec |-> sec + (nsec \div 1000000000),
                     nsec |-> nsec % 1000000000 ]

\* Time.Format(time.RFC3339): the wall clock in the time's location, to
\* the second, and the location's offset.  The text "...T..:..:..+hh:mm"
\* is represented by the pair it spells.
RFC3339(t, loc) == [ wall |-> t.sec + loc, zone |-> loc ]

\* The instant (seconds since the epoch) a formatted timestamp denotes.
Instant(text) == text.wall - text.zone

getTimestamp(stub, loc) ==
    IF ~stub.tsOk
    THEN [ val |-> "", err |-> ClockError ]
    ELSE [ val |-> RFC3339(Unix(stub.Seconds, stub.Nanos), loc), err |-> NoError ]

GetState(st, stub, key) ==
    IF ~stub.getOk
    THEN [ val |-> Nil, err |-> StoreReadError ]
    ELSE [ val |-> st[key], err |-> NoError ]

\* The n-th PutState call of an invocation.  The stub rejects the empty key.
PutState(stub, n, key, value) ==
    IF key = "" \/ stub.putFail = n THEN StoreWriteError ELSE NoError

\* The world state after the write set ws (a sequence of <<key, value>>).
RECURSIVE Commit(_, _)
Commit(st, ws) ==
    IF ws = <<>> THEN st
    ELSE Commit([st EXCEPT ![ws[1][1]] = ws[1][2]], Tail(ws))

---------------------------------------------------------------------------
\* The contract's functions.  Each returns its error, its result and the
\* write set of the invocation.

ProductExists(st, stub, id) ==
    LET r == GetState(st, stub, id) IN
    IF r.err # NoError
    THEN [ val |-> FALSE, err |-> r.err ]
    ELSE [ val |-> r.val # Nil, err |-> NoError ]

\* QueryProduct without the test for nil: json.Unmarshal fails on the nil
\* slice of a key that is not stored.
QueryProduct_NoNilCheck(st, stub, id) ==
    LET r == GetState(st, stub, id) IN
    IF r.err # NoError THEN [ val |-> Nil, err |-> r.err ]
    ELSE IF r.val = Nil THEN [ val |-> Nil, err |-> DecodeError ]
    ELSE [ val |-> Unmarshal(r.val), err |-> NoError ]

QueryProduct(st, stub, id) ==
    LET r == GetState(st, stub, id) IN
    IF r.err # NoError THEN [ val |-> Nil, err |-> r.err ]
    ELSE IF r.val = Nil THEN [ val |-> Nil, err |-> NotFoundError ]
    ELSE [ val |-> Unmarshal(r.val), err |-> NoError ]

\* CreateProduct that puts the product under the key of the first seed
\* asset instead of id.
CreateProduct_PutsUnderP1(st, stub, loc, id, name, owner, description, category) ==
    LET curTime == getTimestamp(stub, loc)
        exists  == ProductExists(st, stub, id)
        product == Product(id, name, "Manufactured", owner, curTime.val,
                           curTime.val, description, category)
        put     == PutState(stub, 1, "p1", Marshal(product))
    IN  IF curTime.err # NoError THEN [ err |-> curTime.err, ws |-> <<>> ]
        ELSE IF exists.err # NoError THEN [ err |-> exists.err, ws |-> <<>> ]
        ELSE IF exists.val THEN [ err |-> AlreadyExistsError, ws |-> <<>> ]
        ELSE IF put # NoError THEN [ err |-> put, ws |-> <<>> ]
        ELSE [ err |-> NoError, ws |-> << <<"p1", Marshal(product)>> >> ]

\* CreateProduct that leaves Status at its zero value.
CreateProduct_NoStatus(st, stub, loc, id, name, owner, description, category) ==
    LET curTime == getTimestamp(stub, loc)
        exists  == ProductExists(st, stub, id)
        product == Product(id, name, "", owner, curTime.val,
                           curTime.val, description, category)
        put     == PutState(stub, 1, id, Marshal(product))
    IN  IF curTime.err # NoError THEN [ err |-> curTime.err, ws |-> <<>> ]
        ELSE IF exists.err # NoError THEN [ err |-> exists.err, ws |-> <<>> ]
        ELSE IF exists.val THEN [ err |-> AlreadyExistsError, ws |-> <<>> ]
        ELSE IF put # NoError THEN [ err |-> put, ws |-> <<>> ]
        ELSE [ err |-> NoError, ws |-> << <<id, Marshal(product)>> >> ]

\* CreateProduct without the test of exists: it writes over a stored product.
CreateProduct_NoExistsCheck(st, stub, loc, id, name, owner, description, category) ==
    LET curTime == getTimestamp(stub, loc)
        exists  == ProductExists(st, stub, id)
        product == Product(id, name, "Manufactured", owner, curTime.val,
                           curTime.val, description, category)
        put     == PutState(stub, 1, id, Marshal(product))
    IN  IF curTime.err # NoError THEN [ err |-> curTime.err, ws |-> <<>> ]
        ELSE IF exists.err # NoError THEN [ err |-> exists.err, ws |-> <<>> ]
        ELSE IF put # NoError THEN [ err |-> put, ws |-> <<>> ]
        ELSE [ err |-> NoError, ws |-> << <<id, Marshal(product)>> >> ]

\* CreateProduct that fills the product's ID from name, and puts it under
\* id.
CreateProduct_IdFromName(st, stub, loc, id, name, owner, description, category) ==
    LET curTime == getTimestamp(stub, loc)
        exists  == ProductExists(st, stub, id)
        product == Product(name, name, "Manufactured", owner, curTime.val,
                           curTime.val, description, category)
        put     == PutState(stub, 1, id, Marshal(product))
    IN  IF curTime.err # NoError THEN [ err |-> curTime.err, ws |-> <<>> ]
        ELSE IF exists.err # NoError THEN [ err |-> exists.err, ws |-> <<>> ]
        ELSE IF exists.val THEN [ err |-> AlreadyExistsError, ws |-> <<>> ]
        ELSE IF put # NoError THEN [ err |-> put, ws |-> <<>> ]
        ELSE [ err |-> NoError, ws |-> << <<id, Marshal(product)>> >> ]

CreateProduct(st, stub, loc, id, name, owner, description, category) ==
    LET curTime == getTimestamp(stub, loc)
        exists  == ProductExists(st, stub, id)
        product == Product(id, name, "Manufactured", owner, curTime.val,
                           curTime.val, description, category)
        put     == PutState(stub, 1, id, Marshal(product))
    IN  IF curTime.err # NoError THEN [ err |-> curTime.err, ws |-> <<>> ]
        ELSE IF exists.err # NoError THEN [ err |-> exists.err, ws |-> <<>> ]
        ELSE IF exists.val THEN [ err |-> AlreadyExistsError, ws |-> <<>> ]
        ELSE IF put # NoError THEN [ err |-> put, ws |-> <<>> ]
        ELSE [ err |-> NoError, ws |-> << <<id, Marshal(product)>> >> ]

\* UpdateProduct that stamps CreatedAt as well as UpdatedAt.
UpdateProduct_ResetsCreatedAt(st, stub, loc, id, newStatus, newOwner, newDescription, newCategory) ==
    LET curTime == getTimestamp(stub, loc)
        q       == QueryProduct(st, stub, id)
        asset   == [ q.val EXCEPT
                       !.Status = IF newStatus # "" THEN newStatus ELSE @,
                       !.Owner = IF newOwner # "" THEN newOwner ELSE @,
                       !.Description = IF newDescription # "" THEN newDescription ELSE @,
                       !.Category = IF newCategory # "" THEN newCategory ELSE @,
                       !.CreatedAt = curTime.val,
                       !.UpdatedAt = curTime.val ]
        put     == PutState(stub, 1, id, Marshal(asset))
    IN  IF curTime.err # NoError THEN [ err |-> curTime.err, ws |-> <<>> ]
        ELSE IF q.err # NoError THEN [ err |-> q.err, ws |-> <<>> ]
        ELSE IF put # NoError THEN [ err |-> put, ws |-> <<>> ]
        ELSE [ err |-> NoError, ws |-> << <<id, Marshal(asset)>> >> ]

\* UpdateProduct without the tests for the empty string: every argument
\* is written.
UpdateProduct_Unconditional(st, stub, loc, id, newStatus, newOwner, newDescription, newCategory) ==
    LET curTime == getTimestamp(stub, loc)
        q       == QueryProduct(st, stub, id)
        asset   == [ q.val EXCEPT
                       !.Status = newStatus, !.Owner = newOwner,
                       !.Description = newDescription, !.Category = newCategory,
                       !.UpdatedAt = curTime.val ]
        put     == PutState(stub, 1, id, Marshal(asset))
    IN  IF curTime.err # NoError THEN [ err |-> curTime.err, ws |-> <<>> ]
        ELSE IF q.err # NoError THEN [ err |-> q.err, ws |-> <<>> ]
        ELSE IF put # NoError THEN [ err |-> put, ws |-> <<>> ]
        ELSE [ err |-> NoError, ws |-> << <<id, Marshal(asset)>> >> ]

UpdateProduct(st, stub, loc, id, newStatus, newOwner, newDescription, newCategory) ==
    LET curTime == getTimestamp(stub, loc)
        q       == QueryProduct(st, stub, id)
        asset   == [ q.val EXCEPT
                       !.Status = IF newStatus # "" THEN newStatus ELSE @,
                       !.Owner = IF newOwner # "" THEN newOwner ELSE @,
                       !.Description = IF newDescription # "" THEN newDescription ELSE @,
                       !.Category = IF newCategory # "" THEN newCategory ELSE @,
                       !.UpdatedAt = curTime.val ]
        put     == PutState(stub, 1, id, Marshal(asset))
    IN  IF curTime.err # NoError THEN [ err |-> curTime.err, ws |-> <<>> ]
        ELSE IF q.err # NoError THEN [ err |-> q.err, ws |-> <<>> ]
        ELSE IF put # NoError THEN [ err |-> put, ws |-> <<>> ]
        ELSE [ err |-> NoError, ws |-> << <<id, Marshal(asset)>> >> ]

\* TransferOwnership that, given the empty newOwner, puts a nil value
\* under the key, which removes it from the world state.
TransferOwnership_WritesNil(st, stub, loc, id, newOwner) ==
    LET curTime == getTimestamp(stub, loc)
        q       == QueryProduct(st, stub, id)
        asset   == [ q.val EXCEPT !.Owner = newOwner, !.UpdatedAt = curTime.val ]
        value   == IF newOwner = "" THEN Nil ELSE Marshal(asset)
        put     == PutState(stub, 1, id, value)
    IN  IF curTime.err # NoError THEN [ err |-> curTime.err, ws |-> <<>> ]
        ELSE IF q.err # NoError THEN [ err |-> q.err, ws |-> <<>> ]
        ELSE IF put # NoError THEN [ err |-> put, ws |-> <<>> ]
        ELSE [ err |-> NoError, ws |-> << <<id, value>> >> ]

\* TransferOwnership with UpdateProduct's test: an empty newOwner keeps
\* the owner.
TransferOwnership_SkipsEmpty(st, stub, loc, id, newOwner) ==
    LET curTime == getTimestamp(stub, loc)
        q       == QueryProduct(st, stub, id)
        asset   == [ q.val EXCEPT !.Owner = IF newOwner # "" THEN newOwner ELSE @,
                                  !.UpdatedAt = curTime.val ]
        put     == PutState(stub, 1, id, Marshal(asset))
    IN  IF curTime.err # NoError THEN [ err |-> curTime.err, ws |-> <<>> ]
        ELSE IF q.err # NoError THEN [ err |-> q.err, ws |-> <<>> ]
        ELSE IF put # NoError THEN [ err |-> put, ws |-> <<>> ]
        ELSE [ err |-> NoError, ws |-> << <<id, Marshal(asset)>> >> ]

TransferOwnership(st, stub, loc, id, newOwner) ==
    LET curTime == getTimestamp(stub, loc)
        q       == QueryProduct(st, stub, id)
        asset   == [ q.val EXCEPT !.Owner = newOwner, !.UpdatedAt = curTime.val ]
        put     == PutState(stub, 1, id, Marshal(asset))
    IN  IF curTime.err # NoError THEN [ err |-> curTime.err, ws |-> <<>> ]
        ELSE IF q.err # NoError THEN [ err |-> q.err, ws |-> <<>> ]
        ELSE IF put # NoError THEN [ err |-> put, ws |-> <<>> ]
        ELSE [ err |-> NoError, ws |-> << <<id, Marshal(asset)>> >> ]

\* The assets of InitLedger with the owner of the first asset in both.
SeedAssets_SameOwner(curTime) ==
    << Product("p1", "Laptop", "Manufactured", "CompanyA", curTime, curTime,
               "High-end gaming laptop", "Electronics"),
       Product("p2", "Smartphone", "Manufactured", "CompanyA", curTime, curTime,
               "Latest model smartphone", "Electronics") >>

\* The assets InitLedger writes, in the order of its slice.
SeedAssets(curTime) ==
    << Product("p1", "Laptop", "Manufactured", "CompanyA", curTime, curTime,
               "High-end gaming laptop", "Electronics"),
       Product("p2", "Smartphone", "Manufactured", "CompanyB", curTime, curTime,
               "Latest model smartphone", "Electronics") >>

\* The loop of InitLedger that passes over a PutState that failed: the
\* later assets are written and the invocation returns nil.
RECURSIVE SeedLoop_IgnoresPutError(_, _, _, _)
SeedLoop_IgnoresPutError(stub, assets, n, ws) ==
    IF n > Len(assets) THEN [ err |-> NoError, ws |-> ws ]
    ELSE LET put == PutState(stub, n, assets[n].ID, Marshal(assets[n])) IN
         IF put # NoError THEN SeedLoop_IgnoresPutError(stub, assets, n + 1, ws)
         ELSE SeedLoop_IgnoresPutError(stub, assets, n + 1,
                       Append(ws, <<assets[n].ID, Marshal(assets[n])>>))

\* The loop of InitLedger from its n-th asset on, ws being the writes made
\* before it: the first PutState that fails ends the invocation.
RECURSIVE SeedLoop(_, _, _, _)
SeedLoop(stub, assets, n, ws) ==
    IF n > Len(assets) THEN [ err |-> NoError, ws |-> ws ]
    ELSE LET put == PutState(stub, n, assets[n].ID, Marshal(assets[n])) IN
         IF put # NoError THEN [ err |-> put, ws |-> ws ]
         ELSE SeedLoop(stub, assets, n + 1,
                       Append(ws, <<assets[n].ID, Marshal(assets[n])>>))

InitLedger(stub, loc) ==
    LET curTime == getTimestamp(stub, loc) IN
    IF curTime.err # NoError THEN [ err |-> curTime.err, ws |-> <<>> ]
    ELSE SeedLoop(stub, SeedAssets(curTime.val), 1, <<>>)

\* GetStateByRange("", ""): the stored keys in ascending order.
GetStateByRange(st) == SelectSeq(KeyOrder, LAMBDA k : st[k] # Nil)

\* The loop of GetAllProducts with `var product Product` declared before
\* the loop: every pointer of the result is to the one variable, which
\* holds the product decoded last.
RECURSIVE ScanLoop_SharedProduct(_, _, _, _, _)
ScanLoop_SharedProduct(st, stub, keys, n, products) ==
    IF n > Len(keys) THEN [ val |-> products, err |-> NoError, reads |-> Len(keys) ]
    ELSE IF stub.nextFail = n THEN [ val |-> <<>>, err |-> StoreReadError, reads |-> n ]
    ELSE IF stub.badValue = n THEN [ val |-> <<>>, err |-> DecodeError, reads |-> n ]
    ELSE ScanLoop_SharedProduct(st, stub, keys, n + 1,
             [ i \in 1..(Len(products) + 1) |-> Unmarshal(st[keys[n]]) ])

\* The loop of GetAllProducts that skips an entry whose Next or Unmarshal
\* fails (continue instead of return) and returns what it could decode.
RECURSIVE ScanLoop_SkipsFailures(_, _, _, _, _)
ScanLoop_SkipsFailures(st, stub, keys, n, products) ==
    IF n > Len(keys) THEN [ val |-> products, err |-> NoError, reads |-> Len(keys) ]
    ELSE IF stub.nextFail = n \/ stub.badValue = n
    THEN ScanLoop_SkipsFailures(st, stub, keys, n + 1, products)
    ELSE ScanLoop_SkipsFailures(st, stub, keys, n + 1,
                                Append(products, Unmarshal(st[keys[n]])))

\* The loop of GetAllProducts from the n-th entry of the iterator on:
\* val and err are what the function returns, reads the number of Next
\* calls made.  The first Next or Unmarshal that fails ends the loop with
\* nil products.
RECURSIVE ScanLoop(_, _, _, _, _)
ScanLoop(st, stub, keys, n, products) ==
    IF n > Len(keys) THEN [ val |-> products, err |-> NoError, reads |-> Len(keys) ]
    ELSE IF stub.nextFail = n THEN [ val |-> <<>>, err |-> StoreReadError, reads |-> n ]
    ELSE IF stub.badValue = n THEN [ val |-> <<>>, err |-> DecodeError, reads |-> n ]
    ELSE ScanLoop(st, stub, keys, n + 1, Append(products, Unmarshal(st[keys[n]])))

\* GetAllProducts that closes the iterator after the loop, on the path
\* that returns the products, instead of deferring the Close.
GetAllProducts_ClosesAtEnd(st, stub) ==
    IF ~stub.rangeOk
    THEN [ val |-> <<>>, err |-> StoreReadError, reads |-> 0,
           opened |-> 0, closed |-> 0 ]
    ELSE LET r == ScanLoop(st, stub, GetStateByRange(st), 1, <<>>) IN
         [ val |-> r.val, err |-> r.err, reads |-> r.reads,
           opened |-> 1, closed |-> IF r.err = NoError THEN 1 ELSE 0 ]

\* opened and closed count the iterators GetStateByRange returned and the
\* Close calls: the Close is deferred once the iterator is open, so it
\* runs on whichever return ends the loop.
GetAllProducts(st, stub) ==
    IF ~stub.rangeOk
    THEN [ val |-> <<>>, err |-> StoreReadError, reads |-> 0,
           opened |-> 0, closed |-> 0 ]
    ELSE LET r == ScanLoop(st, stub, GetStateByRange(st), 1, <<>>) IN
         [ val |-> r.val, err |-> r.err, reads |-> r.reads,
           opened |-> 1, closed |-> 1 ]

---------------------------------------------------------------------------
\* Invocations.

\* The world state after an invocation on st that returned r: the write
\* set is applied when the function returned nil, and dropped otherwise.
Apply(st, r) == IF r.err = NoError THEN Commit(st, r.ws) ELSE st
After(r) == Apply(store, r)

\* The keys of a write set.
Written(r) == IF r.err = NoError THEN { r.ws[i][1] : i \in 1..Len(r.ws) } ELSE {}

\* What is recorded of the timestamp of the transaction: its seconds, when
\* the invocation returned nil.
NoTime == 0
TxTime(stub, r) == IF r.err = NoError THEN stub.Seconds ELSE NoTime

Init ==
    /\ store = [ k \in IDs |-> Nil ]
    /\ Local \in Zones
    /\ last = [ op |-> "none", id |-> "", args |-> <<>>, time |-> NoTime,
                err |-> NoError, ret |-> Nil ]
    /\ made = {}
    /\ iterators = 0
    /\ ntx = 0

InvokeInitLedger ==
    \E stub \in SeedStubs :
        LET r == InitLedger(stub, Local) IN
        /\ ntx < MaxTx
        /\ store' = After(r)
        /\ last' = [ op |-> "InitLedger", id |-> "", args |-> <<>>,
                     time |-> TxTime(stub, r), err |-> r.err, ret |-> Nil ]
        /\ ntx' = ntx + 1
        /\ made' = made \cup Written(r)
        /\ UNCHANGED <<Local, iterators>>

InvokeCreateProduct ==
    \E stub \in Stubs, id \in IDs, a \in CreateArgs :
        LET r == CreateProduct(store, stub, Local, id, a[1], a[2], a[3], a[4]) IN
        /\ ntx < MaxTx
        /\ store' = After(r)
        /\ last' = [ op |-> "CreateProduct", id |-> id, args |-> a,
                     time |-> TxTime(stub, r), err |-> r.err, ret |-> Nil ]
        /\ ntx' = ntx + 1
        /\ made' = made \cup Written(r)
        /\ UNCHANGED <<Local, iterators>>

InvokeUpdateProduct ==
    \E stub \in Stubs, id \in IDs, a \in UpdateArgs :
        LET r == UpdateProduct(store, stub, Local, id, a[1], a[2], a[3], a[4]) IN
        /\ ntx < MaxTx
        /\ store' = After(r)
        /\ last' = [ op |-> "UpdateProduct", id |-> id, args |-> a,
                     time |-> TxTime(stub, r), err |-> r.err, ret |-> Nil ]
        /\ ntx' = ntx + 1
        /\ UNCHANGED <<Local, made, iterators>>

InvokeTransferOwnership ==
    \E stub \in Stubs, id \in IDs, newOwner \in NewOwners :
        LET r == TransferOwnership(store, stub, Local, id, newOwner) IN
        /\ ntx < MaxTx
        /\ store' = After(r)
        /\ last' = [ op |-> "TransferOwnership", id |-> id, args |-> <<newOwner>>,
                     time |-> TxTime(stub, r), err |-> r.err, ret |-> Nil ]
        /\ ntx' = ntx + 1
        /\ UNCHANGED <<Local, made, iterators>>

\* QueryProduct that puts the product back, marked as read, through
\* putProduct.
InvokeQueryProduct_PutsBack ==
    \E stub \in ReadStubs, id \in IDs :
        LET r == QueryProduct(store, stub, id) IN
        /\ ntx < MaxTx
        /\ store' = IF r.err = NoError
                    THEN [ store EXCEPT ![id] = Marshal([ r.val EXCEPT !.Status = "Queried" ]) ]
                    ELSE store
        /\ last' = [ op |-> "QueryProduct", id |-> id, args |-> <<>>,
                     time |-> NoTime, err |-> r.err, ret |-> r.val ]
        /\ ntx' = ntx + 1
        /\ UNCHANGED <<Local, made, iterators>>

InvokeQueryProduct ==
    \E stub \in ReadStubs, id \in IDs :
        LET r == QueryProduct(store, stub, id) IN
        /\ ntx < MaxTx
        /\ last' = [ op |-> "QueryProduct", id |-> id, args |-> <<>>,
                     time |-> NoTime, err |-> r.err, ret |-> r.val ]
        /\ ntx' = ntx + 1
        /\ UNCHANGED <<store, Local, made, iterators>>

InvokeProductExists ==
    \E stub \in ReadStubs, id \in IDs :
        LET r == ProductExists(store, stub, id) IN
        /\ ntx < MaxTx
        /\ last' = [ op |-> "ProductExists", id |-> id, args |-> <<>>,
                     time |-> NoTime, err |-> r.err, ret |-> r.val ]
        /\ ntx' = ntx + 1
        /\ UNCHANGED <<store, Local, made, iterators>>

InvokeGetAllProducts ==
    \E stub \in ScanStubs :
        LET r == GetAllProducts(store, stub) IN
        /\ ntx < MaxTx
        /\ last' = [ op |-> "GetAllProducts", id |-> "", args |-> <<>>,
                     time |-> NoTime, err |-> r.err, ret |-> r.val ]
        /\ iterators' = iterators + r.opened - r.closed
        /\ ntx' = ntx + 1
        /\ UNCHANGED <<store, Local, made>>

Next ==
    \/ InvokeInitLedger
    \/ InvokeCreateProduct
    \/ InvokeUpdateProduct
    \/ InvokeTransferOwnership
    \/ InvokeQueryProduct
    \/ InvokeProductExists
    \/ InvokeGetAllProducts

Spec == Init /\ [][Next]_vars

---------------------------------------------------------------------------
\* Properties.

\* A stub whose GetState succeeds.
OkRead == [ getOk |-> TRUE ]

\* The product stored under key k.
Stored(k) == store[k] # Nil
Rec(k) == Unmarshal(store[k])

\* C1: a successful CreateProduct(id, name, owner, description, category)
\* on an id that is not stored, followed by QueryProduct(id), returns the
\* product with the supplied id, name, owner, description and category,
\* status "Manufactured", and created_at and updated_at both the timestamp
\* derived from the creating transaction.
C1_CreateThenQuery ==
    \A stub \in Stubs, id \in IDs, a \in CreateArgs :
        LET r == CreateProduct(store, stub, Local, id, a[1], a[2], a[3], a[4])
            q == QueryProduct(Apply(store, r), OkRead, id)
            t == RFC3339(Unix(stub.Seconds, stub.Nanos), Local)
        IN  (~Stored(id) /\ r.err = NoError) =>
                /\ q.err = NoError
                /\ q.val.ID = id
                /\ q.val.Name = a[1]
                /\ q.val.Owner = a[2]
                /\ q.val.Description = a[3]
                /\ q.val.Category = a[4]
                /\ q.val.Status = "Manufactured"
                /\ q.val.CreatedAt = t
                /\ q.val.UpdatedAt = t
                /\ Instant(t) = stub.Seconds

\* A CreateProduct has succeeded, and the product it wrote is stored.
C1_Witness ==
    /\ last.op = "CreateProduct" /\ last.err = NoError
    /\ last.args[1] = "Tablet"
    /\ QueryProduct(store, OkRead, last.id).val.Name = "Tablet"
    /\ Instant(QueryProduct(store, OkRead, last.id).val.CreatedAt) = last.time

C3_SelectiveUpdate ==
    [][ (last'.op = "UpdateProduct" /\ last'.err = NoError) =>
            LET id  == last'.id
                a   == last'.args
                old == Rec(id)
                new == Unmarshal(store'[id])
            IN  /\ Stored(id)
                /\ new.Status = IF a[1] # "" THEN a[1] ELSE old.Status
                /\ new.Owner = IF a[2] # "" THEN a[2] ELSE old.Owner
                /\ new.Description = IF a[3] # "" THEN a[3] ELSE old.Description
                /\ new.Category = IF a[4] # "" THEN a[4] ELSE old.Category
                /\ new.ID = old.ID
                /\ new.Name = old.Name
                /\ new.CreatedAt = old.CreatedAt
                /\ Instant(new.UpdatedAt) = last'.time
                /\ new.UpdatedAt.zone = Local ]_vars

\* An UpdateProduct with four empty arguments has succeeded: the fields
\* are those of creation and updated_at alone has moved.
C3_Witness ==
    /\ last.op = "UpdateProduct" /\ last.err = NoError
    /\ last.args = <<"", "", "", "">>
    /\ Rec(last.id).Status = "Manufactured"
    /\ Rec(last.id).Owner = "CompanyC"
    /\ Rec(last.id).UpdatedAt # Rec(last.id).CreatedAt
    /\ Instant(Rec(last.id).UpdatedAt) = last.time

\* C4: a successful TransferOwnership sets owner to newOwner, the empty
\* string included, and updated_at to the timestamp of the transaction,
\* and keeps id, name, status, description, category and created_at.
C4_Transfer ==
    [][ (last'.op = "TransferOwnership" /\ last'.err = NoError) =>
            LET id  == last'.id
                old == Rec(id)
                new == Unmarshal(store'[id])
            IN  /\ Stored(id)
                /\ new.Owner = last'.args[1]
                /\ Instant(new.UpdatedAt) = last'.time
                /\ new.UpdatedAt.zone = Local
                /\ new.ID = old.ID
                /\ new.Name = old.Name
                /\ new.Status = old.Status
                /\ new.Description = old.Description
                /\ new.Category = old.Category
                /\ new.CreatedAt = old.CreatedAt ]_vars

\* A TransferOwnership to the empty owner has succeeded on a product that
\* had an owner.
C4_Witness ==
    /\ last.op = "TransferOwnership" /\ last.err = NoError
    /\ last.args = <<"">>
    /\ Rec(last.id).Owner = ""
    /\ Rec(last.id).Name # ""

\* C5: ProductExists(id) returns true exactly when a value is stored under
\* id, which is exactly when a CreateProduct or an InitLedger has written
\* id; QueryProduct(id) fails with NotFoundError exactly when
\* ProductExists(id) returns false; on an id never created or seeded the
\* first fails with NotFoundError and the second returns false.
C5_ExistsAndQuery ==
    \A stub \in ReadStubs, id \in IDs :
        LET e == ProductExists(store, stub, id)
            q == QueryProduct(store, stub, id)
        IN  /\ e.err = NoError => (e.val <=> Stored(id))
            /\ e.err = NoError => (e.val <=> id \in made)
            /\ q.err = NotFoundError <=> (e.err = NoError /\ ~e.val)
            /\ (stub.getOk /\ id \notin made) =>
                   /\ q.err = NotFoundError
                   /\ e.err = NoError /\ ~e.val

\* A QueryProduct has failed with NotFoundError on an id that was never
\* written, in a world state that stores another product.
C5_Witness ==
    /\ last.op = "QueryProduct" /\ last.err = NotFoundError
    /\ last.id = "p3" /\ "p3" \notin made
    /\ ProductExists(store, OkRead, "p1").val

\* The place of a key in the order of a range scan.
Pos(k) == CHOOSE i \in 1..Len(KeyOrder) : KeyOrder[i] = k

\* C6: a successful GetAllProducts returns one entry for each stored key,
\* equal to the product stored under the key, in ascending order of the
\* keys, and nothing else; after InitLedger on an empty world state it
\* returns p1 (Laptop, CompanyA) and p2 (Smartphone, CompanyB), in this
\* order, both Manufactured.
C6_ListAll ==
    \A stub \in ScanStubs :
        LET r == GetAllProducts(store, stub)
            n == Len(r.val)
        IN  r.err = NoError =>
                /\ \A k \in IDs : Stored(k) =>
                       /\ Cardinality({ i \in 1..n : r.val[i].ID = k }) = 1
                       /\ \A i \in 1..n : r.val[i].ID = k => r.val[i] = Rec(k)
                /\ \A i \in 1..n : r.val[i].ID \in IDs /\ Stored(r.val[i].ID)
                /\ \A i, j \in 1..n : i < j => Pos(r.val[i].ID) < Pos(r.val[j].ID)
                /\ (last.op = "InitLedger" /\ last.err = NoError /\ made = {"p1", "p2"}) =>
                       /\ n = 2
                       /\ r.val[1].ID = "p1" /\ r.val[1].Name = "Laptop"
                       /\ r.val[1].Owner = "CompanyA" /\ r.val[1].Status = "Manufactured"
                       /\ r.val[2].ID = "p2" /\ r.val[2].Name = "Smartphone"
                       /\ r.val[2].Owner = "CompanyB" /\ r.val[2].Status = "Manufactured"

\* A GetAllProducts has returned the two seeded products.
C6_Witness ==
    /\ last.op = "GetAllProducts" /\ last.err = NoError
    /\ Len(last.ret) = 2
    /\ last.ret[1].Name = "Laptop" /\ last.ret[2].Name = "Smartphone"

\* C7: every stored product has created_at <= updated_at, as instants.
C7_CreatedBeforeUpdated ==
    \A k \in IDs : Stored(k) =>
        Instant(Rec(k).CreatedAt) <= Instant(Rec(k).UpdatedAt)

\* C8, as stated: every stored product has a non-empty id, name, owner and
\* status.
C8_NonEmptyFields ==
    \A k \in IDs : Stored(k) =>
        Rec(k).ID # "" /\ Rec(k).Name # "" /\ Rec(k).Owner # "" /\ Rec(k).Status # ""

\* C8, amended: every stored product has a non-empty id and a non-empty
\* status; its name and its owner may be empty.
C8_NonEmptyIdAndStatus ==
    \A k \in IDs : Stored(k) => Rec(k).ID # "" /\ Rec(k).Status # ""

\* A product created with an empty name and an empty owner has been updated
\* with an empty status, and its status is not empty.
C8_Witness ==
    /\ last.op = "UpdateProduct" /\ last.err = NoError /\ last.args[1] = ""
    /\ Rec(last.id).Name = "" /\ Rec(last.id).Owner = ""
    /\ Rec(last.id).Status = "Manufactured"

\* C9: a key that is stored is stored after every further invocation,
\* successful or failed.
C9_NeverDeleted ==
    [][ \A k \in IDs : Stored(k) => store'[k] # Nil ]_vars

\* A product written by the first invocation is stored after a second
\* invocation on its id that failed at PutState.
C9_Witness ==
    /\ ntx = 2 /\ Stored("p3")
    /\ last.op = "TransferOwnership" /\ last.id = "p3"
    /\ last.err = StoreWriteError

\* C10, as stated: the id, name and created_at stored under a key never
\* change.
C10_Immutable ==
    [][ \A k \in IDs : (Stored(k) /\ store'[k] # store[k]) =>
            /\ Unmarshal(store'[k]).ID = Rec(k).ID
            /\ Unmarshal(store'[k]).Name = Rec(k).Name
            /\ Unmarshal(store'[k]).CreatedAt = Rec(k).CreatedAt ]_vars

\* C10, amended: the id stored under a key never changes, and the name and
\* created_at change only when a successful InitLedger writes its assets
\* over the products of p1 and p2.
C10_ImmutableButSeed ==
    [][ \A k \in IDs : (Stored(k) /\ store'[k] # store[k]) =>
            /\ Unmarshal(store'[k]).ID = Rec(k).ID
            /\ \/ /\ last'.op = "InitLedger" /\ last'.err = NoError
                  /\ k \in {"p1", "p2"}
               \/ /\ Unmarshal(store'[k]).Name = Rec(k).Name
                  /\ Unmarshal(store'[k]).CreatedAt = Rec(k).CreatedAt ]_vars

\* An UpdateProduct or a TransferOwnership has changed a product in a
\* transaction with another timestamp than that of its creation.
C10_Witness ==
    /\ last.op \in {"UpdateProduct", "TransferOwnership"} /\ last.err = NoError
    /\ Instant(Rec(last.id).CreatedAt) # last.time
    /\ Instant(Rec(last.id).UpdatedAt) = last.time

\* The functions that write.
WriteOps == {"InitLedger", "CreateProduct", "UpdateProduct", "TransferOwnership"}

Changed == { k \in IDs : store'[k] # store[k] }

\* C12, as stated: no invocation changes more than one key, and
\* CreateProduct, UpdateProduct and TransferOwnership change no key but id.
C12_OneKey ==
    [][ /\ Cardinality(Changed) <= 1
        /\ last'.op \in WriteOps \ {"InitLedger"} => Changed \subseteq {last'.id} ]_vars

\* C12, amended: CreateProduct, UpdateProduct and TransferOwnership change
\* no key but id; InitLedger changes no key but p1 and p2, and it may
\* change both.
C12_OneKeyButSeed ==
    [][ /\ last'.op \in WriteOps \ {"InitLedger"} => Changed \subseteq {last'.id}
        /\ last'.op = "InitLedger" => Changed \subseteq {"p1", "p2"}
        /\ last'.op # "InitLedger" => Cardinality(Changed) <= 1 ]_vars

\* An UpdateProduct has written p1 at another time than the seed's, and p2
\* is as the seed left it.
C12_Witness ==
    /\ last.op = "UpdateProduct" /\ last.err = NoError /\ last.id = "p1"
    /\ Stored("p2") /\ Rec("p2").Name = "Smartphone"
    /\ Rec("p2").UpdatedAt = Rec("p2").CreatedAt
    /\ Rec("p1").UpdatedAt # Rec("p2").UpdatedAt

\* C13: InitLedger fails with the error of the timestamp or of PutState
\* only, whatever is stored; when it returns nil the fixed assets are
\* stored under p1 and p2, with created_at and updated_at both the
\* timestamp of the seeding transaction, whatever was stored there, and
\* every other key is as it was.
C13_SeedOverwrites ==
    [][ last'.op = "InitLedger" =>
            /\ last'.err \in {NoError, ClockError, StoreWriteError}
            /\ last'.err = NoError =>
                   LET t == Unmarshal(store'["p1"]).CreatedAt IN
                   /\ Instant(t) = last'.time
                   /\ t.zone = Local
                   /\ Unmarshal(store'["p1"]) =
                          Product("p1", "Laptop", "Manufactured", "CompanyA", t, t,
                                  "High-end gaming laptop", "Electronics")
                   /\ Unmarshal(store'["p2"]) =
                          Product("p2", "Smartphone", "Manufactured", "CompanyB", t, t,
                                  "Latest model smartphone", "Electronics")
                   /\ \A k \in IDs \ {"p1", "p2"} : store'[k] = store[k] ]_vars

\* An InitLedger has succeeded as the second invocation, in a world state
\* where the first had created p3, which is as it was created.
C13_Witness ==
    /\ last.op = "InitLedger" /\ last.err = NoError /\ ntx = 2
    /\ Stored("p3") /\ Rec("p3").Name = "Tablet"
    /\ Rec("p1").Owner = "CompanyA" /\ Rec("p2").Owner = "CompanyB"
    /\ Instant(Rec("p3").CreatedAt) # last.time

\* The functions that read.
ReadOps == {"QueryProduct", "ProductExists", "GetAllProducts"}

\* C14: an invocation of QueryProduct, ProductExists or GetAllProducts,
\* whether it returns its result or an error, leaves the world state as
\* it was.
C14_PureReads ==
    [][ last'.op \in ReadOps => store' = store ]_vars

\* A GetAllProducts has failed, and a QueryProduct could succeed, on a
\* world state that stores the seed assets.
C14_Witness ==
    /\ last.op = "GetAllProducts" /\ last.err = StoreReadError
    /\ Stored("p1") /\ Stored("p2")
    /\ QueryProduct(store, OkRead, "p1").err = NoError

\* C15: the text getTimestamp produces depends on the transaction's
\* seconds and nanoseconds only, not on the time zone of the peer that
\* executes it: the same CreateProduct or InitLedger, executed on the same
\* world state by a peer in any zone, leaves the world state this peer's
\* execution leaves.
C15_ZoneIndependent ==
    \A stub \in Stubs, zone \in Zones :
        /\ getTimestamp(stub, zone) = getTimestamp(stub, Local)
        /\ Apply(store, InitLedger(stub, zone)) = Apply(store, InitLedger(stub, Local))
        /\ \A id \in IDs, a \in CreateArgs :
               Apply(store, CreateProduct(store, stub, zone, id, a[1], a[2], a[3], a[4]))
                   = Apply(store, CreateProduct(store, stub, Local, id, a[1], a[2], a[3], a[4]))

\* C16: CreateProduct of an id that is stored fails with
\* AlreadyExistsError (or with the error of the read), also in a
\* transaction that has no timestamp; it fails with ClockError only if
\* nothing is stored under the id.  (A failed CreateProduct leaves the
\* world state as it was, so what is stored after it was stored before.)
C16_ExistsBeforeTimestamp ==
    (last.op = "CreateProduct" /\ last.err # NoError) =>
        /\ Stored(last.id) => last.err \in {AlreadyExistsError, StoreReadError}
        /\ last.err = ClockError => ~Stored(last.id)

\* C17: GetAllProducts closes the iterator exactly once whenever
\* GetStateByRange returned one, whichever return ends the loop (the end
\* of the iteration, a Next that fails, a value that does not decode), and
\* closes nothing when GetStateByRange failed; no iterator is open once an
\* invocation has returned.
C17_IteratorClosed ==
    /\ iterators = 0
    /\ \A stub \in ScanStubs :
           LET r == GetAllProducts(store, stub) IN
           /\ r.opened = IF stub.rangeOk THEN 1 ELSE 0
           /\ r.closed = r.opened

\* A GetAllProducts whose second Next failed, after one product was
\* decoded, has returned, and its iterator is closed.
C17_Witness ==
    /\ last.op = "GetAllProducts" /\ last.err = StoreReadError
    /\ Stored("p1") /\ Stored("p2") /\ iterators = 0
    /\ LET r == GetAllProducts(store, [ rangeOk |-> TRUE, nextFail |-> 2, badValue |-> 0 ])
       IN  r.err = last.err /\ r.reads = 2 /\ r.opened = 1 /\ r.closed = 1

\* The first entry of len at which a call of the stub fails, 0 if none.
FirstFailure(stub, len) ==
    LET f == { n \in 1..len : stub.nextFail = n \/ stub.badValue = n }
    IN  IF f = {} THEN 0 ELSE CHOOSE n \in f : \A m \in f : n <= m

\* C18: a GetAllProducts whose GetStateByRange fails, or in which a Next
\* fails or a value does not decode, returns an error and nil products,
\* not the products decoded before the failure, and makes no Next call
\* after the first failure; with no failure it returns an entry for each
\* stored key.
C18_AbortsOnFirstFailure ==
    \A stub \in ScanStubs :
        LET r    == GetAllProducts(store, stub)
            keys == GetStateByRange(store)
            f    == FirstFailure(stub, Len(keys))
        IN  /\ ~stub.rangeOk =>
                   r.err = StoreReadError /\ r.val = <<>> /\ r.reads = 0
            /\ (stub.rangeOk /\ f # 0) =>
                   /\ r.err = IF stub.nextFail = f THEN StoreReadError ELSE DecodeError
                   /\ r.val = <<>>
                   /\ r.reads = f
            /\ (stub.rangeOk /\ f = 0) =>
                   r.err = NoError /\ Len(r.val) = Len(keys) /\ r.reads = Len(keys)

\* A GetAllProducts has failed on a world state of two products: the
\* second value did not decode, after the first was decoded, and nothing
\* of the first is returned.
C18_Witness ==
    /\ last.op = "GetAllProducts" /\ last.err = DecodeError /\ last.ret = <<>>
    /\ Stored("p1") /\ Stored("p2")
    /\ LET r == GetAllProducts(store, [ rangeOk |-> TRUE, nextFail |-> 0, badValue |-> 2 ])
       IN  r.err = DecodeError /\ r.val = <<>> /\ r.reads = 2

\* A stub whose range scan has no fault.
OkScan == [ rangeOk |-> TRUE, nextFail |-> 0, badValue |-> 0 ]

\* C19: in every reachable world state the product stored under a key has
\* that key as its ID: QueryProduct of the key returns a product with this
\* ID, and no two entries GetAllProducts returns have the same ID.
C19_KeyIsId ==
    /\ \A k \in IDs : Stored(k) =>
           /\ Rec(k).ID = k
           /\ QueryProduct(store, OkRead, k).val.ID = k
    /\ LET all == GetAllProducts(store, OkScan).val IN
       \A i, j \in 1..Len(all) : all[i].ID = all[j].ID => i = j

\* The seed assets and a created product are stored, three keys in all,
\* and GetAllProducts returns three products.
C19_Witness ==
    /\ last.op = "CreateProduct" /\ last.err = NoError /\ last.id = "p3"
    /\ Stored("p1") /\ Stored("p2") /\ Stored("p3")
    /\ Rec("p3").ID = "p3" /\ Rec("p3").Name = "Tablet"
    /\ Len(GetAllProducts(store, OkScan).val) = 3

=============================================================================
